---- MODULE Spec2Model ----
(***************************************************************************)
(* Model of src/app.py (ProfessionalVoiceTranscriber): the recording       *)
(* life cycle (UI thread, recording worker, audio callback, LLM workers),  *)
(* the two queues drained by the UI timer, the text widget, and the pure   *)
(* heuristics (_needs_llm_correction, _analyze_changes,                    *)
(* _is_improvement_worthwhile).                                            *)
(*                                                                         *)
(* A text is a sequence of characters; a character is a short string.      *)
(* Cyrillic letters are written by their Latin transliteration ("sh" is    *)
(* the letter sha, "ch" the letter che, "ya" the letter ya), an upper-case *)
(* letter by the upper-case transliteration ("K").                         *)
(***************************************************************************)
EXTENDS Integers, Sequences, FiniteSets, TLC

(***************************************************************************)
(* Characters and the str methods the code uses                            *)
(***************************************************************************)
Whitespace == {" ", "\t", "\n"}

Digits == {"0", "1", "2", "3", "4", "5", "6", "7", "8", "9"}

\* str.lower() on one character
LowerChar(c) ==
    CASE c = "K" -> "k"
      [] c = "P" -> "p"
      [] c = "D" -> "d"
      [] c = "CH" -> "ch"
      [] OTHER -> c

\* str.lower()
Lower(text) == [i \in 1..Len(text) |-> LowerChar(text[i])]

\* str.strip(): leading and trailing whitespace removed
RECURSIVE LStrip(_)
LStrip(text) ==
    IF text # <<>> /\ Head(text) \in Whitespace THEN LStrip(Tail(text)) ELSE text

RECURSIVE RStrip(_)
RStrip(text) ==
    IF text # <<>> /\ text[Len(text)] \in Whitespace
    THEN RStrip(SubSeq(text, 1, Len(text) - 1))
    ELSE text

Strip(text) == RStrip(LStrip(text))

\* str.split(): the maximal runs of non-whitespace characters, in order
RECURSIVE SplitFrom(_, _, _)
SplitFrom(text, i, word) ==
    IF i > Len(text)
    THEN IF word = <<>> THEN <<>> ELSE <<word>>
    ELSE IF text[i] \in Whitespace
         THEN IF word = <<>>
              THEN SplitFrom(text, i + 1, <<>>)
              ELSE <<word>> \o SplitFrom(text, i + 1, <<>>)
         ELSE SplitFrom(text, i + 1, Append(word, text[i]))

Split(text) == SplitFrom(text, 1, <<>>)

\* " ".join(words)
RECURSIVE Join(_)
Join(words) ==
    IF words = <<>> THEN <<>>
    ELSE IF Len(words) = 1 THEN words[1]
    ELSE words[1] \o <<" ">> \o Join(Tail(words))

\* c in text
HasChar(text, c) == \E i \in 1..Len(text) : text[i] = c

\* pattern in text (substring)
Contains(text, pattern) ==
    \E i \in 0..(Len(text) - Len(pattern)) :
        \A j \in 1..Len(pattern) : text[i + j] = pattern[j]

\* str.isdigit()
IsDigit(word) == word # <<>> /\ \A i \in 1..Len(word) : word[i] \in Digits

\* set(seq)
SeqToSet(s) == {s[i] : i \in 1..Len(s)}

Abs(n) == IF n < 0 THEN -n ELSE n

(***************************************************************************)
(* Enhancement gate: _needs_llm_correction and _missing_prepositions       *)
(***************************************************************************)
RunTogetherPatterns ==
    { <<"k", "a", "k", "d", "e", "l", "a">>,
      <<"ch", "t", "o", "t", "y">>,
      <<"ch", "t", "o", "b", "y">>,
      <<"z", "a", "ch", "e", "m", "t", "y">>,
      <<"p", "o", "t", "o", "m", "u", "ch", "t", "o">> }

common_verbs ==
    { <<"p", "o", "sh", "e", "l">>,
      <<"p", "r", "i", "sh", "e", "l">>,
      <<"u", "sh", "e", "l">>,
      <<"v", "e", "r", "n", "u", "l", "s", "ya">>,
      <<"z", "a", "sh", "e", "l">> }

following_nouns ==
    { <<"m", "a", "g", "a", "z", "i", "n">>,
      <<"d", "o", "m">>,
      <<"r", "a", "b", "o", "t", "a">>,
      <<"u", "l", "i", "c", "a">>,
      <<"p", "a", "r", "k">> }

_missing_prepositions(text) ==
    LET words == Split(text)
    IN  \E i \in 1..(Len(words) - 1) :
            words[i] \in common_verbs /\ words[i + 1] \in following_nouns

MinWords == 3

ShortPunctWords == 6

LongWords == 4

\* the gate without the `len(words) < 3` rule
_needs_llm_correction_NoMinWords(text) ==
    LET words == Split(text)
    IN  IF (\E p \in {".", "!", "?"} : HasChar(text, p))
           /\ Len(words) < ShortPunctWords
        THEN FALSE
        ELSE \/ (Len(words) >= LongWords
                 /\ ~ \E p \in {".", "!", "?", ",", ":"} : HasChar(text, p))
             \/ \E i \in 1..Len(words) : IsDigit(words[i])
             \/ \E pat \in RunTogetherPatterns : Contains(Lower(text), pat)
             \/ _missing_prepositions(text)

\* the gate with `len(words) <= 6` in the punctuation rule
_needs_llm_correction_ShortPunctInclusive(text) ==
    LET words == Split(text)
    IN  IF Len(words) < MinWords THEN FALSE
        ELSE IF (\E p \in {".", "!", "?"} : HasChar(text, p))
                /\ Len(words) <= ShortPunctWords
        THEN FALSE
        ELSE \/ (Len(words) >= LongWords
                 /\ ~ \E p \in {".", "!", "?", ",", ":"} : HasChar(text, p))
             \/ \E i \in 1..Len(words) : IsDigit(words[i])
             \/ \E pat \in RunTogetherPatterns : Contains(Lower(text), pat)
             \/ _missing_prepositions(text)

_needs_llm_correction(text) ==
    LET words == Split(text)
    IN  IF Len(words) < MinWords THEN FALSE
        ELSE IF (\E p \in {".", "!", "?"} : HasChar(text, p))
                /\ Len(words) < ShortPunctWords
        THEN FALSE
        ELSE \/ (Len(words) >= LongWords
                 /\ ~ \E p \in {".", "!", "?", ",", ":"} : HasChar(text, p))
             \/ \E i \in 1..Len(words) : IsDigit(words[i])
             \/ \E pat \in RunTogetherPatterns : Contains(Lower(text), pat)
             \/ _missing_prepositions(text)

(***************************************************************************)
(* Enhancement worker: _analyze_changes, _is_improvement_worthwhile        *)
(***************************************************************************)
PunctMarks == {".", ",", "!", "?", ";", ":"}

prepositions ==
    { <<"v">>, <<"n", "a">>, <<"z", "a">>, <<"p", "o", "d">>,
      <<"o">>, <<"u">>, <<"s">>, <<"p", "o">> }

\* sum(1 for word in words if word in prepositions)
PrepCount(words) == Cardinality({i \in 1..Len(words) : words[i] \in prepositions})

\* the change tags, in the order the code appends them
_analyze_changes(original, enhanced) ==
    IF original = enhanced THEN <<>>
    ELSE LET orig_words == Split(original)
             enh_words == Split(enhanced)
             orig_punct == SeqToSet(original) \cap PunctMarks
             enh_punct == SeqToSet(enhanced) \cap PunctMarks
         IN  (IF Len(orig_words) # Len(enh_words) THEN <<"structure">> ELSE <<>>)
             \o (IF enh_punct \ orig_punct # {} THEN <<"punctuation">> ELSE <<>>)
             \o (IF PrepCount(enh_words) > PrepCount(orig_words)
                 THEN <<"prepositions">> ELSE <<>>)

Max(a, b) == IF a > b THEN a ELSE b

\* the acceptance test with `<= 0.6` for the share of kept words
_is_improvement_worthwhile_StrictOverlap(original, enhanced, changes) ==
    IF changes = <<>> THEN FALSE
    ELSE IF 2 * Abs(Len(enhanced) - Len(original)) > Max(Len(original), 1)
    THEN FALSE
    ELSE LET orig_words == SeqToSet(Split(Lower(original)))
             enh_words == SeqToSet(Split(Lower(enhanced)))
             common_words == orig_words \cap enh_words
         IN  ~ (10 * Cardinality(common_words) <= 6 * Max(Cardinality(orig_words), 1))

\* the acceptance test without `if not changes: return False`
_is_improvement_worthwhile_IgnoresChanges(original, enhanced, changes) ==
    IF 2 * Abs(Len(enhanced) - Len(original)) > Max(Len(original), 1)
    THEN FALSE
    ELSE LET orig_words == SeqToSet(Split(Lower(original)))
             enh_words == SeqToSet(Split(Lower(enhanced)))
             common_words == orig_words \cap enh_words
         IN  ~ (10 * Cardinality(common_words) < 6 * Max(Cardinality(orig_words), 1))

\* len_diff > 0.5 is 2*|len(e) - len(o)| > max(len(o), 1);
\* overlap < 0.6 is 10*|common| < 6*max(|orig_words|, 1)
_is_improvement_worthwhile(original, enhanced, changes) ==
    IF changes = <<>> THEN FALSE
    ELSE IF 2 * Abs(Len(enhanced) - Len(original)) > Max(Len(original), 1)
    THEN FALSE
    ELSE LET orig_words == SeqToSet(Split(Lower(original)))
             enh_words == SeqToSet(Split(Lower(enhanced)))
             common_words == orig_words \cap enh_words
         IN  ~ (10 * Cardinality(common_words) < 6 * Max(Cardinality(orig_words), 1))

(***************************************************************************)
(* Bounds of the model and the values the external services may return     *)
(***************************************************************************)
\* Spec: recordings (recording workers) ever started, audio blocks delivered
MaxRecordings == 2

LifecycleBlocks == 1

\* PipelineSpec: one recording with more audio blocks
PipelineRecordings == 1

PipelineBlocks == 2

\* recordings of the fair runs (FairSpec)
FairRecordings == 1

FairBlocks == 1

\* DispatchSpec: one recording, the arrival order of the queued items recorded
DispatchRecordings == 1

DispatchBlocks == 1

\* worker threads: MaxRecordings is the largest of the recording bounds
Workers == 1..MaxRecordings

\* thread identities for recording_lock
NoThread == 0 - 1

UIThread == 0

ShortText == <<"d", "a">>

LongText == <<"o", " ", "u", " ", "v", " ", "s">>

\* what recognizer.Result() may carry in "text"
RecognizerFinals == {<<>>, <<"d", "a", " ">>, LongText}

\* what recognizer.FinalResult() may carry in "text"
RecognizerTails == {<<>>, <<"d", "a", " ">>}

\* what recognizer.PartialResult() may carry in "partial"
RecognizerPartials == {<<>>, <<"d">>}

\* GateSpec: one recording, one audio block, the full result of the
\* recognizer drawn from GateInputs
GateRecordings == 1

GateBlocks == 1

\* longest gate input, in words
MaxGateWords == 6

\* the words the gate inputs are made of: a plain word, a number, a
\* run-together pattern, a listed verb, a listed noun, a word with a full
\* stop, a word with a comma
PlainWord == <<"o">>

GateVocabulary ==
    { PlainWord, <<"5">>, <<"ch", "t", "o", "b", "y">>, <<"u", "sh", "e", "l">>,
      <<"d", "o", "m">>, <<"a", ".">>, <<"a", ",">> }

\* words ending in the other marks
MarkedWords == { <<"a", "!">>, <<"a", "?">>, <<"a", ":">>, <<"a", ";">> }

PlainWords(n) == [i \in 1..n |-> PlainWord]

\* word sequences: up to two words freely; longer ones with a chosen first
\* and last word around plain words; a verb and a noun next to each other or
\* in the reverse order, followed by plain words and a chosen last word;
\* plain words closed by a word with another mark
GateWordSeqs ==
    {<<>>}
    \cup {<<a>> : a \in GateVocabulary}
    \cup {<<a, b>> : a \in GateVocabulary, b \in GateVocabulary}
    \cup UNION {{<<a>> \o PlainWords(n - 2) \o <<b>> :
                    a \in GateVocabulary \ {<<"d", "o", "m">>, <<"a", ",">>},
                    b \in {PlainWord, <<"5">>, <<"a", ".">>, <<"a", ",">>}} :
                 n \in 3..MaxGateWords}
    \cup UNION {{<<<<"u", "sh", "e", "l">>, <<"d", "o", "m">>>> \o PlainWords(n - 3) \o <<b>> :
                    b \in {PlainWord, <<"a", ".">>, <<"a", ",">>}} : n \in 3..MaxGateWords}
    \cup UNION {{<<<<"d", "o", "m">>, <<"u", "sh", "e", "l">>>> \o PlainWords(n - 3) \o <<b>> :
                    b \in {PlainWord, <<"a", ".">>}} : n \in 3..MaxGateWords}
    \cup UNION {{PlainWords(n - 1) \o <<b>> : b \in MarkedWords} : n \in 1..MaxGateWords}

\* the texts given to the gate: the word sequences joined by one space, and
\* some with other whitespace and with an upper-case pattern
GateInputs ==
    {Join(ws) : ws \in GateWordSeqs}
    \cup { <<"o", " ", " ", "o">>,
           <<"o", " ", " ", "o", " ", "o", "\t", "o">>,
           <<" ", "o", " ", "o", " ", "5", " ">>,
           <<"CH", "t", "o", "b", "y", " ", "o", " ", "o">>,
           <<"n", "e", "ch", "t", "o", "b", "y", " ", "o", " ", "o">>,
           <<"ch", "t", "o", " ", "b", "y", " ", "o">>,
           <<"5", "5", " ", "o", " ", "o">>,
           <<"5", "a", " ", "o", " ", "o">> }

\* what llm_tokenizer.decode(...) may return for a text
LlmOutputs(text) == {text, text \o <<".">>, <<"x", " ">>}

\* AcceptSpec: one recording, one audio block, the recognizer's full result
\* and the text decode() returns for it drawn from AcceptPairs
AcceptRecordings == 1

AcceptBlocks == 1

\* longest run of words the service adds to a text
MaxAddedWords == 4

\* the recognized texts given to the service: all prepositions; five words;
\* a verb, a noun and a repeated word; a number and a repeated word; an
\* upper-case word
AcceptOriginals ==
    { LongText,
      <<"k", " ", "o", " ", "u", " ", "v", " ", "s">>,
      <<"u", "sh", "e", "l", " ", "d", "o", "m", " ", "e", " ", "e">>,
      <<"5", " ", "e", " ", "e">>,
      <<"K", " ", "p", " ", "d", " ", "e">> }

\* str.upper() on one character
UpperChar(c) ==
    CASE c = "k" -> "K"
      [] c = "p" -> "P"
      [] c = "d" -> "D"
      [] c = "ch" -> "CH"
      [] OTHER -> c

\* a word the recognized texts do not contain
NewWord == <<"y">>

\* what decode() may return for a recognized text: the text itself, also
\* inside blanks or with a doubled blank; its first k words, or its first k
\* words followed by new words in place of the others, with or without a
\* full stop; the text followed by new words, with or without a full stop;
\* the text with a preposition put in; the text with its first letter in
\* the other case
AcceptResultsFor(original) ==
    LET w == Split(original)
        n == Len(w)
        ends == {<<>>, <<".">>}
        news(m) == [i \in 1..m |-> NewWord]
    IN  { original, <<" ">> \o original \o <<" ">>,
          w[1] \o <<" ", " ">> \o Join(Tail(w)) }
        \cup {Join(SubSeq(w, 1, k)) \o e : k \in 0..n, e \in ends}
        \cup {Join(SubSeq(w, 1, k) \o news(n - k)) \o e : k \in 0..n, e \in ends}
        \cup {Join(w \o news(m)) \o e : m \in 0..MaxAddedWords, e \in ends}
        \cup {Join(<<w[1], <<"v">>>> \o Tail(w))}
        \cup {<<IF UpperChar(original[1]) # original[1]
                THEN UpperChar(original[1]) ELSE LowerChar(original[1])>>
                    \o Tail(original) \o e : e \in ends}

AcceptPairs ==
    UNION {{[original |-> o, result |-> r] : r \in AcceptResultsFor(o)} :
              o \in AcceptOriginals}

(***************************************************************************)
(* State                                                                   *)
(***************************************************************************)
VARIABLES
    limits,          \* the bounds of the run: [recordings, blocks], track,
                     \* whether status_older is recorded, finals, tails,
                     \* partials: what the recognizer may return in the run,
                     \* and results: what decode() may return in the run
                     \* ({}: LlmOutputs of the text)
    models_loaded,   \* self.models_loaded
    loader_pc,       \* position of the _load_models thread
    is_recording,    \* self.is_recording
    stop_event,      \* self.stop_event (threading.Event)
    recording_lock,  \* holder of self.recording_lock, NoThread when free
    text_queue,      \* self.text_queue
    status_queue,    \* self.status_queue
    use_llm,         \* self.use_llm (BooleanVar of the checkbox)
    ui_pc,           \* position of the Tk main thread inside a handler
    record_btn,      \* self.record_btn: [text, state]
    controls_enabled,\* clear_btn / save_btn enabled, progress bar removed
    status_var,      \* self.status_var
    text_widget,     \* self.text_widget: the lines shown
    last_raw_text,   \* self.last_raw_text
    after_pending,   \* _recording_stopped_ui calls scheduled by root.after
    started,         \* recording workers started so far
    w_pc,            \* position of each _recording_worker thread
    stream,          \* state of each worker's sd.InputStream
    cb_pc,           \* position of each worker's audio_callback
    cb_text,         \* local `text` of each worker's running audio_callback
    cb_utt,          \* utterance of each running audio_callback (history)
    blocks,          \* audio blocks delivered so far
    llm_tasks,       \* running _process_with_llm threads
    next_utt,        \* next utterance number (history)
    finalize_calls,  \* recognizer.FinalResult() calls per worker (history)
    notified,        \* root.after(_recording_stopped_ui) calls per worker (history)
    raw_enqueued,    \* utterances whose "raw" event was put (history)
    enh_enqueued,    \* utterances whose "enhanced" event was put (history)
    replaced,        \* <<u, r>>: the "enhanced" event of utterance u removed
                     \* the raw line of utterance r from the widget (history)
    status_older     \* per item of status_queue: how many items still in
                     \* text_queue were put before it (history)

vars == << limits, models_loaded, loader_pc, is_recording, stop_event,
           recording_lock, text_queue, status_queue, use_llm, ui_pc, record_btn,
           controls_enabled, status_var, text_widget, last_raw_text,
           after_pending, started, w_pc, stream, cb_pc, cb_text, cb_utt,
           blocks, llm_tasks, next_utt, finalize_calls, notified,
           raw_enqueued, enh_enqueued, replaced, status_older >>

\* groups used in UNCHANGED
loaderVars == << limits, models_loaded, loader_pc >>

uiVars == << ui_pc, record_btn, controls_enabled, status_var, text_widget,
             last_raw_text, use_llm >>

workerVars == << started, w_pc, stream, finalize_calls, notified >>

cbVars == << cb_pc, cb_text, cb_utt, blocks >>

histVars == << raw_enqueued, enh_enqueued, replaced, status_older >>

\* n items are put on status_queue: each has the current items of text_queue
\* before it
StatusArrives(n, older) ==
    status_older' = IF limits.track
                    THEN status_older \o [i \in 1..n |-> older]
                    ELSE status_older

\* one item is taken from text_queue
TextLeaves(older) == [i \in 1..Len(older) |-> IF older[i] > 0 THEN older[i] - 1 ELSE 0]

\* an item of text_queue: (text_type, text, metadata); utt is the utterance
\* the item belongs to, a history field the handlers never read
Ev(type, text, changes, utt) ==
    [type |-> type, text |-> text, changes |-> changes, utt |-> utt]

\* an item of status_queue / a value of status_var
Status(kind, arg) == [kind |-> kind, arg |-> arg]

\* the state after __init__
Constructed ==
    /\ models_loaded = FALSE
    /\ loader_pc = "start"
    /\ is_recording = FALSE
    /\ stop_event = FALSE
    /\ recording_lock = NoThread
    /\ text_queue = <<>>
    /\ status_queue = <<>>
    /\ use_llm = TRUE
    /\ ui_pc = "idle"
    /\ record_btn = [text |-> "start", state |-> "disabled"]
    /\ controls_enabled = FALSE
    /\ status_var = Status("loading", <<>>)
    /\ text_widget = <<>>
    /\ last_raw_text = <<>>
    /\ after_pending = 0
    /\ started = 0
    /\ w_pc = [w \in Workers |-> "none"]
    /\ stream = [w \in Workers |-> "none"]
    /\ cb_pc = [w \in Workers |-> "idle"]
    /\ cb_text = [w \in Workers |-> <<>>]
    /\ cb_utt = [w \in Workers |-> 0]
    /\ blocks = 0
    /\ llm_tasks = {}
    /\ next_utt = 1
    /\ finalize_calls = [w \in Workers |-> 0]
    /\ notified = [w \in Workers |-> 0]
    /\ raw_enqueued = {}
    /\ enh_enqueued = {}
    /\ replaced = {}
    /\ status_older = <<>>

Init ==
    /\ Constructed
    /\ limits = [recordings |-> MaxRecordings, blocks |-> LifecycleBlocks, track |-> FALSE,
                 finals |-> RecognizerFinals,
                 tails |-> RecognizerTails, partials |-> RecognizerPartials,
                 results |-> {}]

PipelineInit ==
    /\ Constructed
    /\ limits = [recordings |-> PipelineRecordings, blocks |-> PipelineBlocks,
                 track |-> FALSE, finals |-> RecognizerFinals,
                 tails |-> RecognizerTails, partials |-> RecognizerPartials,
                 results |-> {}]

FairInit ==
    /\ Constructed
    /\ limits = [recordings |-> FairRecordings, blocks |-> FairBlocks, track |-> FALSE,
                 finals |-> RecognizerFinals,
                 tails |-> RecognizerTails, partials |-> RecognizerPartials,
                 results |-> {}]

DispatchInit ==
    /\ Constructed
    /\ limits = [recordings |-> DispatchRecordings, blocks |-> DispatchBlocks,
                 track |-> TRUE, finals |-> RecognizerFinals,
                 tails |-> RecognizerTails, partials |-> RecognizerPartials,
                 results |-> {}]

\* the recognizer's full result of the run is one text of GateInputs; its
\* partial and final-flush results are empty
GateInit ==
    /\ Constructed
    /\ \E t \in GateInputs :
         limits = [recordings |-> GateRecordings, blocks |-> GateBlocks,
                   track |-> FALSE, finals |-> {t},
                   tails |-> {<<>>}, partials |-> {<<>>}, results |-> {}]

\* the recognizer's full result of the run and the text the service returns
\* for it are one pair of AcceptPairs
AcceptInit ==
    /\ Constructed
    /\ \E p \in AcceptPairs :
         limits = [recordings |-> AcceptRecordings, blocks |-> AcceptBlocks,
                   track |-> FALSE, finals |-> {p.original},
                   tails |-> {<<>>}, partials |-> {<<>>}, results |-> {p.result}]

(***************************************************************************)
(* _load_models (its own thread)                                           *)
(***************************************************************************)
\* the try block up to self.models_loaded = True: the first status, the Vosk
\* model (missing directory or Model() raising), the second status, the LLM
\* (from_pretrained / to(device) raising); a failure is reported in `except`
LoadModels_Load ==
    /\ loader_pc = "start"
    /\ \/ /\ status_queue' = status_queue \o << Status("loading_vosk", <<>>),
                                               Status("load_error", <<>>) >>
          /\ StatusArrives(2, Len(text_queue))
          /\ loader_pc' = "done"
          /\ UNCHANGED models_loaded
       \/ /\ status_queue' = status_queue \o << Status("loading_vosk", <<>>),
                                               Status("loading_llm", <<>>),
                                               Status("load_error", <<>>) >>
          /\ StatusArrives(3, Len(text_queue))
          /\ loader_pc' = "done"
          /\ UNCHANGED models_loaded
       \/ /\ status_queue' = status_queue \o << Status("loading_vosk", <<>>),
                                               Status("loading_llm", <<>>) >>
          /\ StatusArrives(2, Len(text_queue))
          /\ models_loaded' = TRUE
          /\ loader_pc' = "loaded"
    /\ UNCHANGED << limits, is_recording, stop_event, recording_lock,
                    text_queue, after_pending, llm_tasks, next_utt >>
    /\ UNCHANGED << uiVars, workerVars, cbVars, raw_enqueued, enh_enqueued, replaced >>

\* self.status_queue.put("models loaded"), after models_loaded = True
LoadModels_Ready ==
    /\ loader_pc = "loaded"
    /\ status_queue' = Append(status_queue, Status("models_loaded", <<>>))
    /\ StatusArrives(1, Len(text_queue))
    /\ loader_pc' = "done"
    /\ UNCHANGED << limits, models_loaded, is_recording, stop_event,
                    recording_lock, text_queue, after_pending, llm_tasks, next_utt >>
    /\ UNCHANGED << uiVars, workerVars, cbVars, raw_enqueued, enh_enqueued, replaced >>

(***************************************************************************)
(* Commands on the Tk main thread: toggle_recording, start_recording,      *)
(* stop_recording, _recording_stopped_ui, clear_text, the LLM checkbox.    *)
(* The handlers of the main loop run one at a time: a handler starts only  *)
(* when ui_pc = "idle".                                                    *)
(***************************************************************************)
\* start_recording without the models_loaded check
StartRecording_Enter_NoModelsCheck ==
    /\ started < limits.recordings
    /\ recording_lock = NoThread
    /\ recording_lock' = UIThread
    /\ ui_pc' = "start_locked"

\* start_recording up to the with block: without models messagebox.showerror
\* and return; else the lock is acquired (the call waits while a worker
\* holds it)
StartRecording_Enter ==
    /\ started < limits.recordings
    /\ IF ~models_loaded
       THEN UNCHANGED << ui_pc, recording_lock >>
       ELSE /\ recording_lock = NoThread
            /\ recording_lock' = UIThread
            /\ ui_pc' = "start_locked"

\* stop_recording without the is_recording check
StopRecording_Enter_NoCheck ==
    /\ ui_pc' = "stop_set"
    /\ UNCHANGED recording_lock

\* stop_recording up to the event: the unlocked is_recording check
StopRecording_Enter ==
    /\ ui_pc' = IF ~is_recording THEN "idle" ELSE "stop_set"
    /\ UNCHANGED recording_lock

cmdFrame ==
    /\ UNCHANGED << record_btn, controls_enabled, status_var, text_widget,
                    last_raw_text, use_llm >>
    /\ UNCHANGED << is_recording, stop_event, text_queue,
                    status_queue, after_pending, llm_tasks, next_utt >>
    /\ UNCHANGED << loaderVars, workerVars, cbVars, histVars >>

\* start_recording() called
StartRecording ==
    /\ ui_pc = "idle"
    /\ StartRecording_Enter
    /\ cmdFrame

\* stop_recording() called
StopRecording ==
    /\ ui_pc = "idle"
    /\ StopRecording_Enter
    /\ cmdFrame

\* the record button pressed
ToggleRecording ==
    /\ ui_pc = "idle"
    /\ record_btn.state = "normal"
    /\ IF ~is_recording THEN StartRecording_Enter ELSE StopRecording_Enter
    /\ cmdFrame

\* start_recording without the `if self.is_recording: return` guard
StartRecording_Locked_NoGuard ==
    /\ ui_pc = "start_locked"
    /\ recording_lock = UIThread
    /\ is_recording' = TRUE
    /\ stop_event' = FALSE
    /\ record_btn' = [record_btn EXCEPT !.text = "stop"]
    /\ status_var' = Status("recording", <<>>)
    /\ started' = started + 1
    /\ w_pc' = [w_pc EXCEPT ![started + 1] = "create"]
    /\ recording_lock' = NoThread
    /\ ui_pc' = "idle"
    /\ UNCHANGED << controls_enabled, text_widget, last_raw_text, use_llm >>
    /\ UNCHANGED << text_queue, status_queue, after_pending, llm_tasks, next_utt >>
    /\ UNCHANGED << stream, finalize_calls, notified >>
    /\ UNCHANGED << loaderVars, cbVars, histVars >>

\* start_recording without stop_event.clear()
StartRecording_Locked_NoClear ==
    /\ ui_pc = "start_locked"
    /\ recording_lock = UIThread
    /\ IF is_recording
       THEN UNCHANGED << is_recording, record_btn, status_var, started, w_pc >>
       ELSE /\ is_recording' = TRUE
            /\ record_btn' = [record_btn EXCEPT !.text = "stop"]
            /\ status_var' = Status("recording", <<>>)
            /\ started' = started + 1
            /\ w_pc' = [w_pc EXCEPT ![started + 1] = "create"]
    /\ recording_lock' = NoThread
    /\ ui_pc' = "idle"
    /\ UNCHANGED << controls_enabled, text_widget, last_raw_text, use_llm >>
    /\ UNCHANGED << stop_event, text_queue, status_queue, after_pending, llm_tasks,
                    next_utt >>
    /\ UNCHANGED << stream, finalize_calls, notified >>
    /\ UNCHANGED << loaderVars, cbVars, histVars >>

\* start_recording with stop_event.clear() placed before the guard
StartRecording_Locked_ClearFirst ==
    /\ ui_pc = "start_locked"
    /\ recording_lock = UIThread
    /\ stop_event' = FALSE
    /\ IF is_recording
       THEN UNCHANGED << is_recording, record_btn, status_var, started, w_pc >>
       ELSE /\ is_recording' = TRUE
            /\ record_btn' = [record_btn EXCEPT !.text = "stop"]
            /\ status_var' = Status("recording", <<>>)
            /\ started' = started + 1
            /\ w_pc' = [w_pc EXCEPT ![started + 1] = "create"]
    /\ recording_lock' = NoThread
    /\ ui_pc' = "idle"
    /\ UNCHANGED << controls_enabled, text_widget, last_raw_text, use_llm >>
    /\ UNCHANGED << text_queue, status_queue, after_pending, llm_tasks, next_utt >>
    /\ UNCHANGED << stream, finalize_calls, notified >>
    /\ UNCHANGED << loaderVars, cbVars, histVars >>

\* the with block and the rest of start_recording: return when recording;
\* else the flag, stop_event.clear(), the release, the button and status
\* updates and worker_thread.start()
StartRecording_Locked ==
    /\ ui_pc = "start_locked"
    /\ recording_lock = UIThread
    /\ IF is_recording
       THEN UNCHANGED << is_recording, stop_event, record_btn, status_var,
                         started, w_pc >>
       ELSE /\ is_recording' = TRUE
            /\ stop_event' = FALSE
            /\ record_btn' = [record_btn EXCEPT !.text = "stop"]
            /\ status_var' = Status("recording", <<>>)
            /\ started' = started + 1
            /\ w_pc' = [w_pc EXCEPT ![started + 1] = "create"]
    /\ recording_lock' = NoThread
    /\ ui_pc' = "idle"
    /\ UNCHANGED << controls_enabled, text_widget, last_raw_text, use_llm >>
    /\ UNCHANGED << text_queue, status_queue, after_pending, llm_tasks, next_utt >>
    /\ UNCHANGED << stream, finalize_calls, notified >>
    /\ UNCHANGED << loaderVars, cbVars, histVars >>

\* stop_recording that also drops the running _process_with_llm threads
StopRecording_Set_CancelsWorkers ==
    /\ ui_pc = "stop_set"
    /\ stop_event' = TRUE
    /\ record_btn' = [record_btn EXCEPT !.state = "disabled"]
    /\ status_var' = Status("stopping", <<>>)
    /\ ui_pc' = "idle"
    /\ llm_tasks' = {}
    /\ UNCHANGED << controls_enabled, text_widget, last_raw_text, use_llm >>
    /\ UNCHANGED << is_recording, recording_lock, text_queue,
                    status_queue, after_pending, next_utt >>
    /\ UNCHANGED << loaderVars, workerVars, cbVars, histVars >>

\* stop_recording that also schedules _recording_stopped_ui itself
StopRecording_Set_Notifies ==
    /\ ui_pc = "stop_set"
    /\ stop_event' = TRUE
    /\ record_btn' = [record_btn EXCEPT !.state = "disabled"]
    /\ status_var' = Status("stopping", <<>>)
    /\ after_pending' = after_pending + 1
    /\ notified' = [notified EXCEPT ![started] = @ + 1]
    /\ ui_pc' = "idle"
    /\ UNCHANGED << controls_enabled, text_widget, last_raw_text, use_llm >>
    /\ UNCHANGED << is_recording, recording_lock, text_queue,
                    status_queue, llm_tasks, next_utt >>
    /\ UNCHANGED << started, w_pc, stream, finalize_calls >>
    /\ UNCHANGED << loaderVars, cbVars, histVars >>

\* stop_event.set() and the button and status updates
StopRecording_Set ==
    /\ ui_pc = "stop_set"
    /\ stop_event' = TRUE
    /\ record_btn' = [record_btn EXCEPT !.state = "disabled"]
    /\ status_var' = Status("stopping", <<>>)
    /\ ui_pc' = "idle"
    /\ UNCHANGED << controls_enabled, text_widget, last_raw_text, use_llm >>
    /\ UNCHANGED << is_recording, recording_lock, text_queue,
                    status_queue, after_pending, llm_tasks, next_utt >>
    /\ UNCHANGED << loaderVars, workerVars, cbVars, histVars >>

\* _recording_stopped_ui, run by the main loop once per root.after(0, ...)
RecordingStoppedUI ==
    /\ ui_pc = "idle"
    /\ after_pending > 0
    /\ after_pending' = after_pending - 1
    /\ record_btn' = [text |-> "start", state |-> "normal"]
    /\ status_var' = Status("stopped", <<>>)
    /\ UNCHANGED << ui_pc, controls_enabled, text_widget, last_raw_text, use_llm >>
    /\ UNCHANGED << is_recording, stop_event, recording_lock, text_queue,
                    status_queue, llm_tasks, next_utt >>
    /\ UNCHANGED << loaderVars, workerVars, cbVars, histVars >>

\* clear_text (the clear button)
ClearText ==
    /\ ui_pc = "idle"
    /\ controls_enabled
    /\ text_widget' = <<>>
    /\ last_raw_text' = <<>>
    /\ status_var' = Status("cleared", <<>>)
    /\ UNCHANGED << ui_pc, record_btn, controls_enabled, use_llm >>
    /\ UNCHANGED << is_recording, stop_event, recording_lock, text_queue,
                    status_queue, after_pending, llm_tasks, next_utt >>
    /\ UNCHANGED << loaderVars, workerVars, cbVars, histVars >>

\* the checkbox bound to use_llm
ToggleLLM ==
    /\ ui_pc = "idle"
    /\ use_llm' = ~use_llm
    /\ UNCHANGED << ui_pc, record_btn, controls_enabled, status_var,
                    text_widget, last_raw_text >>
    /\ UNCHANGED << is_recording, stop_event, recording_lock, text_queue,
                    status_queue, after_pending, llm_tasks, next_utt >>
    /\ UNCHANGED << loaderVars, workerVars, cbVars, histVars >>

(***************************************************************************)
(* _process_queues (the 100 ms timer of the main loop) and its handlers    *)
(***************************************************************************)
RawLine(text, utt) == [mark |-> "raw", text |-> text, utt |-> utt]

EnhancedLine(text, utt) == [mark |-> "enhanced", text |-> text, utt |-> utt]

BlankLine == [mark |-> "blank", text |-> <<>>, utt |-> 0]

\* _append_text(f"<raw mark> {text}\n", "raw")
_append_text(widget, text, utt) == Append(widget, RawLine(text, utt))

\* the index of the last line that starts with the raw mark, 0 when none
LastRawIndex(widget) ==
    LET raws == {i \in 1..Len(widget) : widget[i].mark = "raw"}
    IN  IF raws = {} THEN 0 ELSE CHOOSE i \in raws : \A j \in raws : j <= i

RemoveAt(seq, i) == SubSeq(seq, 1, i - 1) \o SubSeq(seq, i + 1, Len(seq))

\* _replace_last_text that only inserts the text
_replace_last_text_AppendsOnly(widget, text, utt) ==
    widget \o << EnhancedLine(text, utt), BlankLine >>

\* _replace_last_text(f"<enhanced mark> {text}\n\n")
_replace_last_text(widget, text, utt) ==
    LET i == LastRawIndex(widget)
    IN  (IF i > 0 THEN RemoveAt(widget, i) ELSE widget)
        \o << EnhancedLine(text, utt), BlankLine >>

\* the timer fires; the status loop: every queued status is shown in turn,
\* the "models loaded" status enables the buttons
ProcessQueues ==
    /\ ui_pc = "idle"
    /\ status_queue # <<>> \/ text_queue # <<>>
    /\ ui_pc' = "drain_text"
    /\ status_queue' = <<>>
    /\ status_older' = <<>>
    /\ status_var' = IF status_queue = <<>> THEN status_var
                     ELSE status_queue[Len(status_queue)]
    /\ IF \E i \in 1..Len(status_queue) : status_queue[i].kind = "models_loaded"
       THEN /\ record_btn' = [record_btn EXCEPT !.state = "normal"]
            /\ controls_enabled' = TRUE
       ELSE UNCHANGED << record_btn, controls_enabled >>
    /\ UNCHANGED << text_widget, last_raw_text, use_llm >>
    /\ UNCHANGED << is_recording, stop_event, recording_lock, text_queue,
                    after_pending, llm_tasks, next_utt >>
    /\ UNCHANGED << loaderVars, workerVars, cbVars, raw_enqueued, enh_enqueued, replaced >>

\* _process_text_data(text_data)
_process_text_data(ev) ==
    CASE ev.type = "raw" ->
            /\ text_widget' = _append_text(text_widget, ev.text, ev.utt)
            /\ last_raw_text' = ev.text
            /\ status_older' = TextLeaves(status_older)
            /\ UNCHANGED << status_queue, status_var, replaced >>
      [] ev.type = "enhanced" ->
            /\ status_queue' = IF ev.changes # <<>>
                               THEN Append(status_queue, Status("improved", ev.changes))
                               ELSE status_queue
            /\ status_older' = IF ev.changes # <<>> /\ limits.track
                               THEN Append(TextLeaves(status_older), Len(text_queue) - 1)
                               ELSE TextLeaves(status_older)
            /\ text_widget' = _replace_last_text(text_widget, ev.text, ev.utt)
            /\ replaced' = IF LastRawIndex(text_widget) > 0
                           THEN replaced \cup
                                {<<ev.utt, text_widget[LastRawIndex(text_widget)].utt>>}
                           ELSE replaced
            /\ UNCHANGED << last_raw_text, status_var >>
      [] ev.type = "partial" ->
            /\ status_var' = Status("partial", ev.text)
            /\ status_older' = TextLeaves(status_older)
            /\ UNCHANGED << status_queue, text_widget, last_raw_text, replaced >>
      [] ev.type = "llm_processing" ->
            /\ status_var' = Status("enhancing", <<>>)
            /\ status_older' = TextLeaves(status_older)
            /\ UNCHANGED << status_queue, text_widget, last_raw_text, replaced >>

\* one turn of the text loop: get_nowait and _process_text_data, or queue.Empty
\* and root.after(100, self._process_queues)
ProcessQueues_Text ==
    /\ ui_pc = "drain_text"
    /\ IF text_queue = <<>>
       THEN /\ ui_pc' = "idle"
            /\ UNCHANGED << text_queue, status_queue, status_var, text_widget,
                            last_raw_text, replaced, status_older >>
       ELSE /\ text_queue' = Tail(text_queue)
            /\ _process_text_data(Head(text_queue))
            /\ UNCHANGED ui_pc
    /\ UNCHANGED << record_btn, controls_enabled, use_llm >>
    /\ UNCHANGED << is_recording, stop_event, recording_lock,
                    after_pending, llm_tasks, next_utt >>
    /\ UNCHANGED << raw_enqueued, enh_enqueued >>
    /\ UNCHANGED << loaderVars, workerVars, cbVars >>

(***************************************************************************)
(* _recording_worker (one thread per recording) and _finalize_recording    *)
(***************************************************************************)
wFrame ==
    /\ UNCHANGED << is_recording, stop_event, recording_lock, text_queue,
                    after_pending, llm_tasks, next_utt, started, finalize_calls,
                    notified >>
    /\ UNCHANGED << loaderVars, uiVars, cbVars, raw_enqueued, enh_enqueued, replaced >>

\* recognizer = KaldiRecognizer(...), outside the try: it returns, or it raises
\* and the thread ends with the exception
RecordingWorker_Create(w) ==
    /\ w_pc[w] = "create"
    /\ \/ w_pc' = [w_pc EXCEPT ![w] = "open"]
       \/ w_pc' = [w_pc EXCEPT ![w] = "crashed"]
    /\ UNCHANGED << stream, status_queue, status_older >>
    /\ wFrame

\* with sd.InputStream(...): the stream opens and starts, or it raises and
\* `except Exception` reports the error; `finally` follows
RecordingWorker_Open(w) ==
    /\ w_pc[w] = "open"
    /\ \/ /\ stream' = [stream EXCEPT ![w] = "active"]
          /\ w_pc' = [w_pc EXCEPT ![w] = "loop"]
          /\ UNCHANGED << status_queue, status_older >>
       \/ /\ status_queue' = Append(status_queue, Status("record_error", <<>>))
          /\ StatusArrives(1, Len(text_queue))
          /\ w_pc' = [w_pc EXCEPT ![w] = "finalize"]
          /\ UNCHANGED stream
    /\ wFrame

\* _finalize_recording called inside the with block: the stream is still open
\* and a callback may be running
RecordingWorker_Close_StreamOpen(w) ==
    /\ w_pc[w] = "loop"
    /\ stop_event
    /\ w_pc' = [w_pc EXCEPT ![w] = "finalize"]
    /\ UNCHANGED << stream, status_queue, status_older >>
    /\ wFrame

\* while not self.stop_event.is_set(): sd.sleep(100), then leaving the with
\* block: stream.stop() returns once no callback is running, then stream.close()
RecordingWorker_Close(w) ==
    /\ w_pc[w] = "loop"
    /\ stop_event
    /\ cb_pc[w] = "idle"
    /\ stream' = [stream EXCEPT ![w] = "closed"]
    /\ w_pc' = [w_pc EXCEPT ![w] = "finalize"]
    /\ UNCHANGED << status_queue, status_older >>
    /\ wFrame

\* _finalize_recording that puts the tail text twice, as "raw" and as "enhanced"
FinalizeRecording_Result_TwoEvents(w) ==
    /\ w_pc[w] = "finalize"
    /\ finalize_calls' = [finalize_calls EXCEPT ![w] = @ + 1]
    /\ w_pc' = [w_pc EXCEPT ![w] = "fin_lock"]
    /\ \/ UNCHANGED << text_queue, next_utt, enh_enqueued, raw_enqueued >>
       \/ \E t \in limits.tails :
            LET final_text == Strip(t)
            IN  IF final_text # <<>>
                THEN /\ text_queue' = text_queue
                                        \o << Ev("raw", final_text, <<>>, next_utt),
                                              Ev("enhanced", final_text, <<>>, next_utt) >>
                     /\ raw_enqueued' = raw_enqueued \cup {next_utt}
                     /\ enh_enqueued' = enh_enqueued \cup {next_utt}
                     /\ next_utt' = next_utt + 1
                ELSE UNCHANGED << text_queue, next_utt, enh_enqueued, raw_enqueued >>
    /\ UNCHANGED << is_recording, stop_event, recording_lock, status_queue,
                    after_pending, llm_tasks, started, stream, notified >>
    /\ UNCHANGED << replaced, status_older >>
    /\ UNCHANGED << loaderVars, uiVars, cbVars >>

\* _finalize_recording, the try block: recognizer.FinalResult() raises, or
\* returns a text that is put as "enhanced" when not empty
FinalizeRecording_Result(w) ==
    /\ w_pc[w] = "finalize"
    /\ finalize_calls' = [finalize_calls EXCEPT ![w] = @ + 1]
    /\ w_pc' = [w_pc EXCEPT ![w] = "fin_lock"]
    /\ \/ UNCHANGED << text_queue, next_utt, enh_enqueued >>
       \/ \E t \in limits.tails :
            LET final_text == Strip(t)
            IN  IF final_text # <<>>
                THEN /\ text_queue' = Append(text_queue,
                                             Ev("enhanced", final_text, <<>>, next_utt))
                     /\ enh_enqueued' = enh_enqueued \cup {next_utt}
                     /\ next_utt' = next_utt + 1
                ELSE UNCHANGED << text_queue, next_utt, enh_enqueued >>
    /\ UNCHANGED << is_recording, stop_event, recording_lock, status_queue,
                    after_pending, llm_tasks, started, stream, notified >>
    /\ UNCHANGED << raw_enqueued, replaced, status_older >>
    /\ UNCHANGED << loaderVars, uiVars, cbVars >>

\* _finalize_recording that resets is_recording without taking the lock
FinalizeRecording_Acquire_WritesUnlocked(w) ==
    /\ w_pc[w] = "fin_lock"
    /\ is_recording' = FALSE
    /\ w_pc' = [w_pc EXCEPT ![w] = "fin_after"]
    /\ UNCHANGED << stop_event, recording_lock, text_queue, status_queue,
                    after_pending, llm_tasks, next_utt, started, stream,
                    finalize_calls, notified >>
    /\ UNCHANGED << loaderVars, uiVars, cbVars, histVars >>

\* finally: with self.recording_lock: (acquire)
FinalizeRecording_Acquire(w) ==
    /\ w_pc[w] = "fin_lock"
    /\ recording_lock = NoThread
    /\ recording_lock' = w
    /\ w_pc' = [w_pc EXCEPT ![w] = "fin_locked"]
    /\ UNCHANGED << is_recording, stop_event, text_queue, status_queue,
                    after_pending, llm_tasks, next_utt, started, stream,
                    finalize_calls, notified >>
    /\ UNCHANGED << loaderVars, uiVars, cbVars, histVars >>

\* self.is_recording = False, and the release
FinalizeRecording_Locked(w) ==
    /\ w_pc[w] = "fin_locked"
    /\ recording_lock = w
    /\ is_recording' = FALSE
    /\ recording_lock' = NoThread
    /\ w_pc' = [w_pc EXCEPT ![w] = "fin_after"]
    /\ UNCHANGED << stop_event, text_queue, status_queue,
                    after_pending, llm_tasks, next_utt, started, stream,
                    finalize_calls, notified >>
    /\ UNCHANGED << loaderVars, uiVars, cbVars, histVars >>

\* self.root.after(0, self._recording_stopped_ui); the thread ends
FinalizeRecording_After(w) ==
    /\ w_pc[w] = "fin_after"
    /\ after_pending' = after_pending + 1
    /\ notified' = [notified EXCEPT ![w] = @ + 1]
    /\ w_pc' = [w_pc EXCEPT ![w] = "done"]
    /\ UNCHANGED << is_recording, stop_event, recording_lock, text_queue,
                    status_queue, llm_tasks, next_utt, started, stream,
                    finalize_calls >>
    /\ UNCHANGED << loaderVars, uiVars, cbVars, histVars >>

(***************************************************************************)
(* audio_callback (run by the audio thread while the stream is active)     *)
(***************************************************************************)
cbReturn(w) ==
    /\ cb_pc' = [cb_pc EXCEPT ![w] = "idle"]
    /\ cb_text' = [cb_text EXCEPT ![w] = <<>>]
    /\ cb_utt' = [cb_utt EXCEPT ![w] = 0]

\* audio_callback without the stop_event check at its start
AudioCallback_Enter_NoCheck(w) ==
    /\ stream[w] = "active"
    /\ cb_pc[w] = "idle"
    /\ blocks < limits.blocks
    /\ blocks' = blocks + 1
    /\ cb_pc' = [cb_pc EXCEPT ![w] = "feed"]
    /\ UNCHANGED << stream, cb_text, cb_utt >>
    /\ UNCHANGED << is_recording, stop_event, recording_lock, text_queue,
                    status_queue, after_pending, llm_tasks, next_utt, started,
                    w_pc, finalize_calls, notified >>
    /\ UNCHANGED << loaderVars, uiVars, histVars >>

\* a block is delivered: the stop_event check, raise sd.CallbackStop()
AudioCallback_Enter(w) ==
    /\ stream[w] = "active"
    /\ cb_pc[w] = "idle"
    /\ blocks < limits.blocks
    /\ blocks' = blocks + 1
    /\ IF stop_event
       THEN /\ stream' = [stream EXCEPT ![w] = "callback_stopped"]
            /\ UNCHANGED cb_pc
       ELSE /\ cb_pc' = [cb_pc EXCEPT ![w] = "feed"]
            /\ UNCHANGED stream
    /\ UNCHANGED << cb_text, cb_utt >>
    /\ UNCHANGED << is_recording, stop_event, recording_lock, text_queue,
                    status_queue, after_pending, llm_tasks, next_utt, started,
                    w_pc, finalize_calls, notified >>
    /\ UNCHANGED << loaderVars, uiVars, histVars >>

\* audio_callback without `if text:`: an empty full result is put as "raw" too
AudioCallback_Feed_NoEmptyCheck(w) ==
    /\ cb_pc[w] = "feed"
    /\ \/ /\ cb_pc' = [cb_pc EXCEPT ![w] = "except"]
          /\ UNCHANGED << cb_text, cb_utt, text_queue, next_utt, raw_enqueued >>
       \/ \E t \in limits.finals :
            LET text == Strip(t)
            IN  /\ text_queue' = Append(text_queue, Ev("raw", text, <<>>, next_utt))
                /\ raw_enqueued' = raw_enqueued \cup {next_utt}
                /\ cb_text' = [cb_text EXCEPT ![w] = text]
                /\ cb_utt' = [cb_utt EXCEPT ![w] = next_utt]
                /\ next_utt' = next_utt + 1
                /\ cb_pc' = [cb_pc EXCEPT ![w] = "gate"]
       \/ \E partial_text \in limits.partials :
            /\ text_queue' = IF partial_text # <<>>
                             THEN Append(text_queue, Ev("partial", partial_text, <<>>, 0))
                             ELSE text_queue
            /\ cbReturn(w)
            /\ UNCHANGED << next_utt, raw_enqueued >>
    /\ UNCHANGED << is_recording, stop_event, recording_lock, status_queue,
                    after_pending, llm_tasks, blocks >>
    /\ UNCHANGED << enh_enqueued, replaced, status_older >>
    /\ UNCHANGED << loaderVars, uiVars, workerVars >>

\* recognizer.AcceptWaveform(pcm_data) and Result() / PartialResult():
\* an exception, a full result (put as "raw" when not empty), or a partial
\* result (put as "partial" when not empty)
AudioCallback_Feed(w) ==
    /\ cb_pc[w] = "feed"
    /\ \/ /\ cb_pc' = [cb_pc EXCEPT ![w] = "except"]
          /\ UNCHANGED << cb_text, cb_utt, text_queue, next_utt, raw_enqueued >>
       \/ \E t \in limits.finals :
            LET text == Strip(t)
            IN  IF text # <<>>
                THEN /\ text_queue' = Append(text_queue, Ev("raw", text, <<>>, next_utt))
                     /\ raw_enqueued' = raw_enqueued \cup {next_utt}
                     /\ cb_text' = [cb_text EXCEPT ![w] = text]
                     /\ cb_utt' = [cb_utt EXCEPT ![w] = next_utt]
                     /\ next_utt' = next_utt + 1
                     /\ cb_pc' = [cb_pc EXCEPT ![w] = "gate"]
                ELSE /\ cbReturn(w)
                     /\ UNCHANGED << text_queue, next_utt, raw_enqueued >>
       \/ \E partial_text \in limits.partials :
            /\ text_queue' = IF partial_text # <<>>
                             THEN Append(text_queue, Ev("partial", partial_text, <<>>, 0))
                             ELSE text_queue
            /\ cbReturn(w)
            /\ UNCHANGED << next_utt, raw_enqueued >>
    /\ UNCHANGED << is_recording, stop_event, recording_lock, status_queue,
                    after_pending, llm_tasks, blocks >>
    /\ UNCHANGED << enh_enqueued, replaced, status_older >>
    /\ UNCHANGED << loaderVars, uiVars, workerVars >>

\* audio_callback that consults only _needs_llm_correction, not use_llm
AudioCallback_Gate_IgnoresSwitch(w) ==
    /\ cb_pc[w] = "gate"
    /\ IF _needs_llm_correction(cb_text[w])
       THEN /\ text_queue' = Append(text_queue,
                                    Ev("llm_processing", <<>>, <<>>, cb_utt[w]))
            /\ cb_pc' = [cb_pc EXCEPT ![w] = "spawn"]
            /\ UNCHANGED << cb_text, cb_utt, enh_enqueued >>
       ELSE /\ text_queue' = Append(text_queue,
                                    Ev("enhanced", cb_text[w], <<>>, cb_utt[w]))
            /\ enh_enqueued' = enh_enqueued \cup {cb_utt[w]}
            /\ cbReturn(w)
    /\ UNCHANGED << is_recording, stop_event, recording_lock, status_queue,
                    after_pending, llm_tasks, next_utt, blocks >>
    /\ UNCHANGED << raw_enqueued, replaced, status_older >>
    /\ UNCHANGED << loaderVars, uiVars, workerVars >>

\* if self.use_llm.get() and self._needs_llm_correction(text): put
\* "llm_processing"; else put the text again as "enhanced"
AudioCallback_Gate(w) ==
    /\ cb_pc[w] = "gate"
    /\ IF use_llm /\ _needs_llm_correction(cb_text[w])
       THEN /\ text_queue' = Append(text_queue,
                                    Ev("llm_processing", <<>>, <<>>, cb_utt[w]))
            /\ cb_pc' = [cb_pc EXCEPT ![w] = "spawn"]
            /\ UNCHANGED << cb_text, cb_utt, enh_enqueued >>
       ELSE /\ text_queue' = Append(text_queue,
                                    Ev("enhanced", cb_text[w], <<>>, cb_utt[w]))
            /\ enh_enqueued' = enh_enqueued \cup {cb_utt[w]}
            /\ cbReturn(w)
    /\ UNCHANGED << is_recording, stop_event, recording_lock, status_queue,
                    after_pending, llm_tasks, next_utt, blocks >>
    /\ UNCHANGED << raw_enqueued, replaced, status_older >>
    /\ UNCHANGED << loaderVars, uiVars, workerVars >>

\* threading.Thread(target=self._process_with_llm, args=(text,)).start()
AudioCallback_Spawn(w) ==
    /\ cb_pc[w] = "spawn"
    /\ llm_tasks' = llm_tasks \cup {[utt |-> cb_utt[w], text |-> cb_text[w]]}
    /\ cbReturn(w)
    /\ UNCHANGED << is_recording, stop_event, recording_lock, text_queue,
                    status_queue, after_pending, next_utt, blocks >>
    /\ UNCHANGED << loaderVars, uiVars, workerVars, histVars >>

\* except Exception: logging.error(...); self.stop_event.set()
AudioCallback_Except(w) ==
    /\ cb_pc[w] = "except"
    /\ stop_event' = TRUE
    /\ cbReturn(w)
    /\ UNCHANGED << is_recording, recording_lock, text_queue,
                    status_queue, after_pending, llm_tasks, next_utt, blocks >>
    /\ UNCHANGED << loaderVars, uiVars, workerVars, histVars >>

(***************************************************************************)
(* _process_with_llm (one thread per utterance that passed the gate)       *)
(***************************************************************************)
\* the texts decode() may return in the run: limits.results when the run
\* names them, else LlmOutputs
DecodeResults(text) ==
    IF limits.results # {} THEN limits.results ELSE LlmOutputs(text)

\* what the enhancement service does: it raises, or decode() returns a text
LlmOutcomes(text) ==
    {[ok |-> FALSE, result |-> <<>>]}
        \cup {[ok |-> TRUE, result |-> r] : r \in DecodeResults(text)}

\* _enhance_with_llm(text) -> (result_text, changes)
_enhance_with_llm(text, outcome) ==
    IF Strip(text) = <<>> THEN [text |-> text, changes |-> <<>>]
    ELSE IF ~outcome.ok THEN [text |-> text, changes |-> <<>>]
    ELSE LET result == Strip(outcome.result)
             changes == _analyze_changes(text, result)
         IN  IF _is_improvement_worthwhile(text, result, changes)
             THEN [text |-> result, changes |-> changes]
             ELSE [text |-> text, changes |-> <<>>]

\* _process_with_llm that publishes nothing when the enhancement service fails
ProcessWithLLM_SilentFailure(task) ==
    /\ task \in llm_tasks
    /\ \E outcome \in LlmOutcomes(task.text) :
         LET res == _enhance_with_llm(task.text, outcome)
         IN  IF outcome.ok
             THEN /\ text_queue' = Append(text_queue,
                                  Ev("enhanced", res.text, res.changes, task.utt))
                  /\ enh_enqueued' = enh_enqueued \cup {task.utt}
             ELSE UNCHANGED << text_queue, enh_enqueued >>
    /\ llm_tasks' = llm_tasks \ {task}
    /\ UNCHANGED << is_recording, stop_event, recording_lock, status_queue,
                    after_pending, next_utt >>
    /\ UNCHANGED << raw_enqueued, replaced, status_older >>
    /\ UNCHANGED << loaderVars, uiVars, workerVars, cbVars >>

\* _process_with_llm(text): one "enhanced" event, from either branch
ProcessWithLLM(task) ==
    /\ task \in llm_tasks
    /\ \E outcome \in LlmOutcomes(task.text) :
         LET res == _enhance_with_llm(task.text, outcome)
         IN  text_queue' = Append(text_queue,
                                  Ev("enhanced", res.text, res.changes, task.utt))
    /\ enh_enqueued' = enh_enqueued \cup {task.utt}
    /\ llm_tasks' = llm_tasks \ {task}
    /\ UNCHANGED << is_recording, stop_event, recording_lock, status_queue,
                    after_pending, next_utt >>
    /\ UNCHANGED << raw_enqueued, replaced, status_older >>
    /\ UNCHANGED << loaderVars, uiVars, workerVars, cbVars >>

(***************************************************************************)
(* The program                                                             *)
(***************************************************************************)
Next ==
    \/ LoadModels_Load
    \/ LoadModels_Ready
    \/ StartRecording
    \/ StopRecording
    \/ ToggleRecording
    \/ StartRecording_Locked
    \/ StopRecording_Set
    \/ RecordingStoppedUI
    \/ ClearText
    \/ ToggleLLM
    \/ ProcessQueues
    \/ ProcessQueues_Text
    \/ \E w \in Workers :
        \/ RecordingWorker_Create(w)
        \/ RecordingWorker_Open(w)
        \/ RecordingWorker_Close(w)
        \/ FinalizeRecording_Result(w)
        \/ FinalizeRecording_Acquire(w)
        \/ FinalizeRecording_Locked(w)
        \/ FinalizeRecording_After(w)
        \/ AudioCallback_Enter(w)
        \/ AudioCallback_Feed(w)
        \/ AudioCallback_Gate(w)
        \/ AudioCallback_Spawn(w)
        \/ AudioCallback_Except(w)
    \/ \E task \in llm_tasks : ProcessWithLLM(task)

\* two recordings, one audio block
Spec == Init /\ [][Next]_vars

\* one recording, two audio blocks
PipelineSpec == PipelineInit /\ [][Next]_vars

\* one recording, one audio block, arrival order recorded
DispatchSpec == DispatchInit /\ [][Next]_vars

\* one recording, one audio block, the recognizer's full result drawn from
\* GateInputs
GateSpec == GateInit /\ [][Next]_vars

\* one recording, one audio block, the recognizer's full result and the
\* service's answer drawn from AcceptPairs
AcceptSpec == AcceptInit /\ [][Next]_vars

\* one recording, one audio block, the threads scheduled fairly: a thread that
\* can take its next step takes it; the lock is granted to a waiting thread
Fairness ==
    /\ WF_vars(StartRecording_Locked)
    /\ WF_vars(StopRecording_Set)
    /\ WF_vars(RecordingStoppedUI)
    /\ \A w \in 1..FairRecordings :
        /\ WF_vars(RecordingWorker_Create(w))
        /\ WF_vars(RecordingWorker_Open(w))
        /\ WF_vars(RecordingWorker_Close(w))
        /\ WF_vars(FinalizeRecording_Result(w))
        /\ SF_vars(FinalizeRecording_Acquire(w))
        /\ WF_vars(FinalizeRecording_Locked(w))
        /\ WF_vars(FinalizeRecording_After(w))
        /\ WF_vars(AudioCallback_Feed(w))
        /\ WF_vars(AudioCallback_Gate(w))
        /\ WF_vars(AudioCallback_Spawn(w))
        /\ WF_vars(AudioCallback_Except(w))

FairSpec == FairInit /\ [][Next]_vars /\ Fairness

(***************************************************************************)
(* Properties                                                              *)
(***************************************************************************)
\* workers between worker_thread.start() and their write of is_recording = False
ActiveWorkers ==
    {w \in Workers : w_pc[w] \in {"create", "open", "loop", "finalize",
                                  "fin_lock", "fin_locked"}}

\* C1: every "enhanced" event put on text_queue belongs to an utterance whose
\* "raw" event was put before it.
C1_EnhancedAfterRaw ==
    \A i \in 1..Len(text_queue) :
        text_queue[i].type = "enhanced" => text_queue[i].utt \in raw_enqueued

\* C2: at most one recording worker is between its start and its write of
\* is_recording = False, at most one input stream is open, at most one
\* recognizer is not yet finalized, and a worker is in that span only while
\* is_recording is set.
C2_AtMostOneRecording ==
    /\ Cardinality(ActiveWorkers) <= 1
    /\ Cardinality({w \in Workers : stream[w] \in {"active", "callback_stopped"}}) <= 1
    /\ Cardinality({w \in Workers : w_pc[w] \in {"open", "loop", "finalize"}}) <= 1
    /\ ActiveWorkers # {} => is_recording

\* C2 witness: the second worker records while the first one, past its write
\* of is_recording = False, has not yet scheduled _recording_stopped_ui
C2_SecondRecordingAfterFirst ==
    /\ w_pc[1] = "fin_after"
    /\ w_pc[2] = "loop"
    /\ stream[2] = "active"

\* C3: an "enhanced" event applied by the consumer removes only the raw line
\* of its own utterance.
C3_EnhancedReplacesOwnRaw ==
    \A p \in replaced : p[1] = p[2]

\* C4: start_recording that finds is_recording set changes nothing: no worker
\* is started, stop_event keeps its value, the button and the status line
\* are not touched.
C4_StartWhileRecordingIsNoOp ==
    [][(ui_pc = "start_locked" /\ is_recording /\ ui_pc' = "idle")
        => /\ is_recording'
           /\ UNCHANGED << stop_event, started, w_pc, stream, record_btn,
                           status_var, text_queue, status_queue, after_pending,
                           notified, controls_enabled, text_widget >>]_vars

\* C4 witness: start_recording holds the lock while a recording is stopping
C4_StartDuringStopping ==
    /\ ui_pc = "start_locked"
    /\ is_recording
    /\ stop_event
    /\ started = 1
    /\ w_pc[1] = "finalize"

\* C5: a stop_recording that follows a stop_recording of the same recording
\* changes nothing, and each recording is finalized once and notified once.
C5_StopTwiceAsOnce ==
    /\ [][(ui_pc = "stop_set" /\ ui_pc' = "idle" /\ stop_event
           /\ record_btn.state = "disabled" /\ status_var = Status("stopping", <<>>))
          => UNCHANGED << stop_event, record_btn, status_var, is_recording,
                          started, w_pc, stream, text_queue, status_queue,
                          after_pending, notified, finalize_calls, text_widget,
                          controls_enabled, recording_lock >>]_vars
    /\ [](\A w \in Workers :
            /\ finalize_calls[w] <= 1
            /\ notified[w] <= 1
            /\ w_pc[w] = "done" => finalize_calls[w] = 1 /\ notified[w] = 1)

\* C5 witness: a second stop_recording has passed its check while the effects
\* of the first are in place and the recording is not yet finalized
C5_SecondStopInFlight ==
    /\ ui_pc = "stop_set"
    /\ stop_event
    /\ is_recording
    /\ record_btn.state = "disabled"
    /\ status_var = Status("stopping", <<>>)

\* C6: a started recording for which stop was requested or whose capture
\* thread failed (recognizer not created, stream not opened) eventually has
\* is_recording reset and _recording_stopped_ui scheduled.
C6_RecordingReturnsToIdle ==
    \A w \in Workers :
        (w_pc[w] \in {"create", "open", "loop", "finalize", "crashed"}
            /\ (stop_event \/ w_pc[w] \in {"crashed", "finalize"}))
        ~> (w_pc[w] = "done" /\ notified[w] = 1)

\* C7: when the recognizer raises inside audio_callback, the handler sets
\* stop_event and puts an error report on a queue for the consumer.
C7_FeedErrorReported ==
    [][\A w \in Workers :
        (cb_pc[w] = "except" /\ cb_pc'[w] = "idle")
        => /\ stop_event'
           /\ \/ /\ Len(status_queue') = Len(status_queue) + 1
                 /\ status_queue'[Len(status_queue')].kind = "record_error"
              \/ /\ Len(text_queue') = Len(text_queue) + 1
                 /\ text_queue'[Len(text_queue')].type = "error"]_vars

\* C8: an audio_callback invocation that begins while stop_event is set
\* halts the stream and returns: it does not feed the recognizer, puts no
\* event and starts no LLM thread; a halted stream runs no callback.
C8_StopObservedAtCallbackStart ==
    /\ [][\A w \in Workers :
            (stop_event /\ blocks' = blocks + 1 /\ stream[w] = "active"
                /\ << cb_pc'[w], stream'[w] >> # << cb_pc[w], stream[w] >>)
            => /\ cb_pc'[w] = "idle"
               /\ stream'[w] = "callback_stopped"
               /\ UNCHANGED << text_queue, status_queue, llm_tasks, next_utt >>]_vars
    /\ [](\A w \in Workers : stream[w] = "callback_stopped" => cb_pc[w] = "idle")

\* C8 witness: a callback that began after stop_event was set has halted the
\* stream of a recording that is not yet finalized
C8_CallbackStoppedStream ==
    \E w \in Workers :
        /\ stream[w] = "callback_stopped"
        /\ w_pc[w] = "loop"
        /\ stop_event

\* C9: recognizer.FinalResult() is called at most once per worker, once for a
\* finished worker, and from the call on the worker's stream is closed (or
\* was never opened) and no audio_callback of it is running.
C9_FinalizeOnceAfterStreamStopped ==
    \A w \in Workers :
        /\ finalize_calls[w] <= 1
        /\ finalize_calls[w] = 1 => stream[w] \in {"none", "closed"} /\ cb_pc[w] = "idle"
        /\ w_pc[w] \in {"fin_lock", "fin_locked", "fin_after", "done"}
              <=> finalize_calls[w] = 1

\* C9 witness: FinalResult() was called for a recording whose stream had
\* delivered a block
C9_FinalizedAfterBlocks ==
    \E w \in Workers :
        /\ finalize_calls[w] = 1
        /\ stream[w] = "closed"
        /\ blocks >= 1

\* C10: _finalize_recording puts at most one event (an "enhanced" event with a
\* non-empty text and no changes) when FinalResult() is called, then resets
\* is_recording, then schedules _recording_stopped_ui; every worker that
\* reached it ends with is_recording reset by it and the notification scheduled.
C10_TeardownOrder ==
    /\ [][\A w \in Workers :
            /\ finalize_calls'[w] # finalize_calls[w]
                => /\ is_recording /\ is_recording' /\ notified'[w] = 0
                   /\ \/ text_queue' = text_queue
                      \/ \E t \in RecognizerTails :
                            /\ Strip(t) # <<>>
                            /\ text_queue' = Append(text_queue,
                                    Ev("enhanced", Strip(t), <<>>, next_utt))
            /\ (w_pc[w] = "fin_locked" /\ w_pc'[w] # "fin_locked")
                => finalize_calls[w] = 1 /\ ~is_recording' /\ notified'[w] = 0
            /\ notified'[w] # notified[w]
                => /\ w_pc[w] = "fin_after" /\ w_pc'[w] = "done"
                   /\ finalize_calls[w] = 1
                   /\ notified'[w] = 1 /\ after_pending' = after_pending + 1]_vars
    /\ [][is_recording /\ ~is_recording'
            => \E w \in Workers : w_pc[w] = "fin_locked" /\ finalize_calls[w] = 1]_vars
    /\ [](\A w \in Workers : w_pc[w] = "done" => finalize_calls[w] = 1 /\ notified[w] = 1)

\* C10 witness: a worker has finished after its FinalResult() yielded a text:
\* the tail event was put, is_recording is reset, the notification scheduled
C10_TeardownWithTail ==
    /\ w_pc[1] = "done"
    /\ notified[1] = 1
    /\ ~is_recording
    /\ enh_enqueued \ raw_enqueued # {}
    /\ started = 1

\* C11: an enhancement worker that ends puts exactly one event, an "enhanced"
\* event of its utterance, and no status; when the service raised or the
\* result was not accepted, the event carries the original text and no changes.
C11_WorkerPublishesOneEnhanced ==
    /\ [][\A task \in llm_tasks :
            task \notin llm_tasks'
            => /\ Len(text_queue') = Len(text_queue) + 1
               /\ SubSeq(text_queue', 1, Len(text_queue)) = text_queue
               /\ status_queue' = status_queue
               /\ LET ev == text_queue'[Len(text_queue')]
                  IN  /\ ev.type = "enhanced"
                      /\ ev.utt = task.utt
                      /\ ev.changes = <<>> => ev.text = task.text
                      /\ ev.changes # <<>>
                            => \E r \in LlmOutputs(task.text) :
                                  /\ ev.text = Strip(r)
                                  /\ ev.changes = _analyze_changes(task.text, Strip(r))]_vars
    /\ [](\A task \in llm_tasks : \A outcome \in LlmOutcomes(task.text) :
            (~outcome.ok
                \/ ~_is_improvement_worthwhile(task.text, Strip(outcome.result),
                        _analyze_changes(task.text, Strip(outcome.result))))
            => _enhance_with_llm(task.text, outcome)
                    = [text |-> task.text, changes |-> <<>>])

\* C11 witness: the "enhanced" event of a worker whose result was not taken
\* (original text, no changes) is queued behind its "llm_processing" event
C11_RejectedResultPublished ==
    \E i \in 1..Len(text_queue) : \E j \in 1..Len(text_queue) :
        /\ i < j
        /\ text_queue[i].type = "llm_processing"
        /\ text_queue[j].type = "enhanced"
        /\ text_queue[j].utt = text_queue[i].utt
        /\ text_queue[j].changes = <<>>
        /\ text_queue[j].text = LongText
        /\ llm_tasks = {}

\* C12: stop_recording and the teardown of a recording leave the running
\* _process_with_llm threads alone; a running thread can always end, recording
\* or not; and the consumer drains the queue and applies an "enhanced" event
\* whatever is_recording is.
C12_StopLeavesWorkersRunning ==
    /\ [][(stop_event' # stop_event \/ is_recording' # is_recording
            \/ w_pc' # w_pc \/ stream' # stream \/ ui_pc' # ui_pc)
          => llm_tasks \subseteq llm_tasks']_vars
    /\ [](\A task \in llm_tasks : ENABLED ProcessWithLLM(task))
    /\ []((ui_pc = "idle" /\ text_queue # <<>>) => ENABLED ProcessQueues)
    /\ [][(ui_pc = "drain_text" /\ text_queue # <<>>
            /\ Head(text_queue).type = "enhanced"
            /\ text_queue' = Tail(text_queue))
          => text_widget' = _replace_last_text(text_widget, Head(text_queue).text,
                                               Head(text_queue).utt)]_vars

\* C12 witness: the recording is over (is_recording reset, _recording_stopped_ui
\* has run after a stop_recording) and a _process_with_llm thread started
\* during it is still running
C12_WorkerInFlightWhileIdle ==
    /\ ~is_recording
    /\ stop_event
    /\ w_pc[1] = "done"
    /\ after_pending = 0
    /\ record_btn = [text |-> "start", state |-> "normal"]
    /\ llm_tasks # {}

\* C13 (as stated): after the "raw" event of a full result, "llm_processing"
\* is put and a _process_with_llm thread is to be started if and only if
\* _needs_llm_correction holds for the text.
C13_StartedIffGatePasses ==
    [][\A w \in Workers :
        (cb_pc[w] = "gate" /\ cb_pc'[w] # "gate")
        => (cb_pc'[w] = "spawn" <=> _needs_llm_correction(cb_text[w]))]_vars

\* C13 (amended): the "raw" event of a full result is put first; then
\* "llm_processing" is put and a _process_with_llm thread is started if and
\* only if use_llm is set and _needs_llm_correction holds for the text; the
\* thread is started after "llm_processing" was put and before any
\* "enhanced" event of the utterance.
C13_StartedIffSwitchAndGate ==
    /\ [][\A w \in Workers :
            (cb_pc[w] = "gate" /\ cb_pc'[w] # "gate")
            => /\ llm_tasks' = llm_tasks
               /\ IF use_llm /\ _needs_llm_correction(cb_text[w])
                  THEN /\ cb_pc'[w] = "spawn"
                       /\ text_queue' = Append(text_queue,
                              Ev("llm_processing", <<>>, <<>>, cb_utt[w]))
                  ELSE /\ cb_pc'[w] = "idle"
                       /\ text_queue' = Append(text_queue,
                              Ev("enhanced", cb_text[w], <<>>, cb_utt[w]))]_vars
    /\ [][\A task \in llm_tasks' \ llm_tasks :
            \E w \in Workers :
                /\ cb_pc[w] = "spawn" /\ cb_pc'[w] = "idle"
                /\ task = [utt |-> cb_utt[w], text |-> cb_text[w]]
                /\ llm_tasks' = llm_tasks \cup {task}
                /\ text_queue' = text_queue]_vars
    /\ [](\A w \in Workers :
            /\ cb_pc[w] \in {"gate", "spawn"}
                => cb_utt[w] \in raw_enqueued /\ cb_utt[w] \notin enh_enqueued
            /\ cb_pc[w] = "spawn" => _needs_llm_correction(cb_text[w]))
    /\ [](\A task \in llm_tasks :
            /\ task.utt \in raw_enqueued
            /\ task.utt \notin enh_enqueued
            /\ _needs_llm_correction(task.text))

\* C13 witness: the callback has put "raw" and then "llm_processing" for an
\* utterance and is about to start its _process_with_llm thread
C13_StartedEventBeforeThread ==
    \E w \in Workers :
        /\ cb_pc[w] = "spawn"
        /\ Len(text_queue) >= 2
        /\ text_queue[Len(text_queue) - 1] = Ev("raw", cb_text[w], <<>>, cb_utt[w])
        /\ text_queue[Len(text_queue)] = Ev("llm_processing", <<>>, <<>>, cb_utt[w])
        /\ llm_tasks = {}

\* C14: the consumer handles the queued items in the order in which they
\* were put, across both queues: when it handles the waiting statuses no
\* item put before one of them is still in text_queue, and when it handles an
\* item of text_queue no status put before that item is still waiting.
C14_HandledInArrivalOrder ==
    [][/\ (ui_pc = "idle" /\ ui_pc' = "drain_text")
            => \A i \in 1..Len(status_older) : status_older[i] = 0
       /\ (ui_pc = "drain_text" /\ text_queue # <<>> /\ text_queue' = Tail(text_queue))
            => \A i \in 1..Len(status_older) : status_older[i] > 0]_vars

\* C15: is_recording is written only by the thread that holds recording_lock:
\* set by start_recording inside its with block, reset by _finalize_recording
\* inside its with block; and the lock has one holder, the thread that is
\* inside its with block.
C15_FlagWrittenUnderLock ==
    /\ [][/\ (~is_recording /\ is_recording')
                => recording_lock = UIThread /\ ui_pc = "start_locked"
          /\ (is_recording /\ ~is_recording')
                => \E w \in Workers : recording_lock = w /\ w_pc[w] = "fin_locked"]_vars
    /\ [](/\ recording_lock \in {NoThread, UIThread} \cup Workers
          /\ recording_lock = UIThread <=> ui_pc = "start_locked"
          /\ \A w \in Workers : recording_lock = w <=> w_pc[w] = "fin_locked")

\* C15 witness: after start_recording set the flag inside its with block and
\* stop was requested, the worker is inside its own, about to reset the flag
C15_WorkerHoldsLock ==
    /\ recording_lock = 1
    /\ w_pc[1] = "fin_locked"
    /\ is_recording
    /\ started = 1
    /\ stop_event

\* C16: a stop_recording that finds is_recording reset returns at once: it
\* does not reach the statements that set stop_event and touch the button and
\* the status line; stop_event is set only by a stop_recording that found the
\* flag set or by a failed audio_callback; and a start_recording that starts
\* a recording leaves stop_event clear.
C16_StopWhileIdleIsNoOp ==
    /\ [][(ui_pc = "idle" /\ ~is_recording) => ui_pc' # "stop_set"]_vars
    /\ [][(~stop_event /\ stop_event')
            => \/ ui_pc = "stop_set" /\ ui_pc' = "idle"
               \/ \E w \in Workers : cb_pc[w] = "except" /\ cb_pc'[w] = "idle"]_vars
    /\ [][(record_btn.state = "normal" /\ record_btn'.state = "disabled")
            => ui_pc = "stop_set" /\ ui_pc' = "idle"]_vars
    /\ [][(~is_recording /\ is_recording') => ~stop_event']_vars
    /\ [](ui_pc = "stop_set" => started >= 1)

\* C16 witness: the first recording is over (the program is where a
\* stop_recording returns at once) and a second one, started later, is
\* capturing with stop_event clear
C16_NextRecordingNotStopped ==
    /\ w_pc[1] = "done"
    /\ started = 2
    /\ w_pc[2] = "loop"
    /\ stream[2] = "active"
    /\ is_recording
    /\ ~stop_event
    /\ finalize_calls[1] = 1

\* C17: when sd.InputStream cannot be opened the recording does not start:
\* at the failure is_recording is not set and the button and the status line
\* do not show a recording; the failure is reported on status_queue.
C17_FailedOpenNeverRecording ==
    /\ [][\A w \in Workers :
            (w_pc[w] = "open" /\ w_pc'[w] = "finalize")
            => /\ status_queue' = Append(status_queue, Status("record_error", <<>>))
               /\ ~is_recording
               /\ record_btn.text = "start"
               /\ status_var.kind # "recording"]_vars
    /\ [](\A w \in Workers :
            (w_pc[w] = "done" /\ stream[w] = "none" /\ started = w) => ~is_recording)

\* C18: a failure in _load_models is put on status_queue as one status and
\* leaves models_loaded False; the main loop goes on; and while models_loaded
\* is False no start_recording gets past its first check: is_recording and
\* stop_event stay clear, the lock is not taken and no worker is started.
C18_LoadFailureKeepsIdle ==
    /\ [][(loader_pc = "start" /\ loader_pc' = "done")
            => /\ ~models_loaded'
               /\ Len(status_queue') > Len(status_queue)
               /\ \A i \in 1..Len(status_queue') :
                    status_queue'[i].kind = "load_error" <=> i = Len(status_queue')]_vars
    /\ [][~models_loaded => (models_loaded' => loader_pc = "start")]_vars
    /\ [](~models_loaded
            => /\ ~is_recording
               /\ ~stop_event
               /\ ui_pc # "start_locked"
               /\ recording_lock = NoThread
               /\ started = 0
               /\ \A w \in Workers : w_pc[w] = "none"
               /\ record_btn = [text |-> "start", state |-> "disabled"])
    /\ []((loader_pc = "done" /\ ~models_loaded /\ ui_pc = "idle")
            => ENABLED StartRecording /\ ENABLED StopRecording)

\* C18 witness: the load has failed, the consumer has shown the error status
\* and the main loop is idle, accepting commands
C18_LoadErrorShown ==
    /\ loader_pc = "done"
    /\ ~models_loaded
    /\ status_var.kind = "load_error"
    /\ status_queue = <<>>
    /\ ui_pc = "idle"

\* C19: for a text of fewer than 3 words the gate returns False, whatever the
\* words are; the callback then starts no _process_with_llm thread for it
\* and puts the "enhanced" event itself.
C19_ShortTextNotEnhanced ==
    /\ [](\A t \in limits.finals : \A text \in {t, Strip(t)} :
            Len(Split(text)) < 3 => ~_needs_llm_correction(text))
    /\ [][\A w \in Workers :
            (cb_pc[w] = "gate" /\ cb_pc'[w] # "gate" /\ Len(Split(cb_text[w])) < 3)
            => /\ cb_pc'[w] = "idle"
               /\ llm_tasks' = llm_tasks
               /\ text_queue' = Append(text_queue,
                        Ev("enhanced", cb_text[w], <<>>, cb_utt[w]))]_vars

\* C19 witness: with use_llm set, the callback has put "raw" and then
\* "enhanced" itself for the two words verb, noun
C19_VerbNounPairNotEnhanced ==
    /\ use_llm
    /\ llm_tasks = {}
    /\ text_queue = << Ev("raw", <<"u", "sh", "e", "l", " ", "d", "o", "m">>, <<>>, 1),
                       Ev("enhanced", <<"u", "sh", "e", "l", " ", "d", "o", "m">>, <<>>, 1) >>

\* C20: for every text the gate returns: False if the text has fewer than 3
\* words; else False if it contains one of . ! ? and has fewer than 6 words;
\* else True exactly if (a) it has at least 4 words and none of . ! ? , :
\* or (b) a word is all digits or (c) the lower-cased text contains a
\* run-together pattern or (d) a listed verb is directly followed by a
\* listed noun; and the callback's decision is that value and use_llm.
C20_GateEqualsPolicy ==
    /\ [](\A t \in limits.finals : \A text \in {t, Strip(t)} :
            LET words == Split(text)
                n == Len(words)
                marks(ms) == \E i \in 1..Len(text) : text[i] \in ms
                policy ==
                    IF n < 3 THEN FALSE
                    ELSE IF marks({".", "!", "?"}) /\ n < 6 THEN FALSE
                    ELSE \/ n >= 4 /\ ~marks({".", "!", "?", ",", ":"})
                         \/ \E i \in 1..n :
                                words[i] # <<>> /\ \A j \in 1..Len(words[i]) :
                                    words[i][j] \in Digits
                         \/ \E pat \in RunTogetherPatterns : Contains(Lower(text), pat)
                         \/ \E i \in 1..(n - 1) :
                                words[i] \in common_verbs /\ words[i + 1] \in following_nouns
            IN  _needs_llm_correction(text) <=> policy)
    /\ [][\A w \in Workers :
            (cb_pc[w] = "gate" /\ cb_pc'[w] # "gate")
            => (cb_pc'[w] = "spawn"
                    <=> (use_llm /\ _needs_llm_correction(cb_text[w])))]_vars

\* C20 witness: six words with a number and a full stop pass the gate: the
\* callback is about to start the _process_with_llm thread
C20_SixWordsWithStopPass ==
    \E w \in Workers :
        /\ cb_pc[w] = "spawn"
        /\ cb_text[w] = <<"5", " ", "o", " ", "o", " ", "o", " ", "o", " ", "a", ".">>

\* C21: for the text of a _process_with_llm thread and a text the service
\* may return for it, with
\* changes the tags computed for the pair, _enhance_with_llm returns the
\* returned text and the tags if and only if the tags are not empty,
\* 2*|len(result) - len(original)| <= len(original), and
\* 10*|common words| >= 6*|words of the original| (sets of lower-cased
\* words); otherwise it returns the original text and no tags; the thread
\* puts what _enhance_with_llm returned.
C21_AcceptedIffAllThree ==
    /\ [](\A task \in llm_tasks : \A r \in DecodeResults(task.text) :
            LET original == task.text
                result == Strip(r)
                changes == _analyze_changes(original, result)
                wordset(x) == {Lower(Split(x)[i]) : i \in 1..Len(Split(x))}
                size_diff == IF Len(result) >= Len(original)
                             THEN Len(result) - Len(original)
                             ELSE Len(original) - Len(result)
                all_three ==
                    /\ changes # <<>>
                    /\ 2 * size_diff <= Len(original)
                    /\ 10 * Cardinality(wordset(original) \cap wordset(result))
                            >= 6 * Cardinality(wordset(original))
            IN  _enhance_with_llm(original, [ok |-> TRUE, result |-> r])
                    = IF all_three
                      THEN [text |-> result, changes |-> changes]
                      ELSE [text |-> original, changes |-> <<>>])
    /\ [][\A task \in llm_tasks :
            task \notin llm_tasks'
            => \E outcome \in LlmOutcomes(task.text) :
                 text_queue' = Append(text_queue,
                     Ev("enhanced", _enhance_with_llm(task.text, outcome).text,
                        _enhance_with_llm(task.text, outcome).changes, task.utt))]_vars

\* C21 witness: three of the five words kept (exactly 60%) and one character
\* more: the returned text was put with its tag
C21_SixtyPercentKept ==
    /\ Len(text_queue) >= 1
    /\ text_queue[Len(text_queue)]
         = Ev("enhanced", <<"k", " ", "o", " ", "u", " ", "y", " ", "y", ".">>,
              <<"punctuation">>, 1)
    /\ limits.finals = {<<"k", " ", "o", " ", "u", " ", "v", " ", "s">>}

\* C22: when the text the service returned is the original text, no change
\* tag is computed, _is_improvement_worthwhile returns False, and the
\* "enhanced" event carries the original text and no tags: a thread for
\* which the service can return only its own text puts exactly that event.
C22_SameTextRejected ==
    /\ [](\A task \in llm_tasks :
            /\ _analyze_changes(task.text, task.text) = <<>>
            /\ ~_is_improvement_worthwhile(task.text, task.text,
                    _analyze_changes(task.text, task.text))
            /\ \A outcome \in LlmOutcomes(task.text) :
                  (outcome.ok /\ Strip(outcome.result) = task.text)
                  => _enhance_with_llm(task.text, outcome)
                        = [text |-> task.text, changes |-> <<>>])
    /\ [][\A task \in llm_tasks :
            (task \notin llm_tasks'
                /\ \A outcome \in LlmOutcomes(task.text) :
                        outcome.ok => Strip(outcome.result) = task.text)
            => text_queue' = Append(text_queue,
                                    Ev("enhanced", task.text, <<>>, task.utt))]_vars

\* C22 witness: the service returned the recognized text inside blanks; the
\* thread has put the original text with no tags after "llm_processing"
C22_SameTextPublished ==
    /\ limits.results = {<<" ", "o", " ", "u", " ", "v", " ", "s", " ">>}
    /\ llm_tasks = {}
    /\ Len(text_queue) = 3
    /\ text_queue[2].type = "llm_processing"
    /\ text_queue[3] = Ev("enhanced", LongText, <<>>, 1)

\* C23: whenever the main loop runs _recording_stopped_ui (the button is set
\* back to "start"), is_recording is not set.
C23_StoppedUIAppliedWhenIdle ==
    [][after_pending' < after_pending => ~is_recording]_vars

\* C24: the raw lines shown are at most as many as the utterances with a
\* "raw" event put whose "enhanced" event has not been applied (not yet put,
\* or still in text_queue); applying an "enhanced" event adds exactly one
\* enhanced line and removes at most one raw line, leaving the other lines;
\* and when no audio_callback and no _process_with_llm thread is running and
\* text_queue is empty, no raw line is shown.
C24_NoRawLineLeftBehind ==
    /\ [](LET unresolved ==
                {u \in raw_enqueued :
                    \/ u \notin enh_enqueued
                    \/ \E i \in 1..Len(text_queue) :
                          text_queue[i].type = "enhanced" /\ text_queue[i].utt = u}
          IN  Cardinality({i \in 1..Len(text_widget) : text_widget[i].mark = "raw"})
                <= Cardinality(unresolved))
    /\ [][(ui_pc = "drain_text" /\ text_queue # <<>>
            /\ Head(text_queue).type = "enhanced"
            /\ text_queue' = Tail(text_queue))
          => LET marked(widget, mark) ==
                     Cardinality({i \in 1..Len(widget) : widget[i].mark = mark})
             IN  /\ marked(text_widget', "enhanced") = marked(text_widget, "enhanced") + 1
                 /\ marked(text_widget', "raw")
                        \in {marked(text_widget, "raw"), marked(text_widget, "raw") - 1}
                 /\ Len(text_widget') \in {Len(text_widget) + 2, Len(text_widget) + 1}
                 /\ text_widget'[Len(text_widget') - 1]
                        = EnhancedLine(Head(text_queue).text, Head(text_queue).utt)
                 /\ \A i \in 1..Len(text_widget) :
                        text_widget[i].mark # "raw"
                        => \E j \in 1..Len(text_widget') : text_widget'[j] = text_widget[i]]_vars
    /\ []((llm_tasks = {} /\ text_queue = <<>>
            /\ \A w \in Workers : cb_pc[w] = "idle")
          => {i \in 1..Len(text_widget) : text_widget[i].mark = "raw"} = {})

\* C24 witness: two utterances and the tail of the recording were shown, one
\* "enhanced" event having removed the raw line of another utterance;
\* everything has ended and been applied; three enhanced lines, no raw line
C24_AllResolvedAfterTail ==
    /\ llm_tasks = {}
    /\ text_queue = <<>>
    /\ ui_pc = "idle"
    /\ \A w \in Workers : cb_pc[w] = "idle"
    /\ w_pc[1] = "done"
    /\ Cardinality(raw_enqueued) = 2
    /\ \E p \in replaced : p[1] # p[2]
    /\ Cardinality({i \in 1..Len(text_widget) : text_widget[i].mark = "enhanced"}) = 3
    /\ {i \in 1..Len(text_widget) : text_widget[i].mark = "raw"} = {}

\* C25: a recording worker is started with stop_event clear and with every
\* earlier worker past its write of is_recording = False, its stream closed
\* or never opened and no callback of it running; stop_event is cleared only
\* then; it is set only by a stop_recording that found the running recording
\* (no start_recording comes between its check and its set) or by a failed
\* callback of the running recording; and a worker leaves its wait loop, and
\* its stream stops, only with stop_event set.
C25_StopEventNotCarriedOver ==
    /\ [][\A w \in Workers :
            (w_pc[w] = "none" /\ w_pc'[w] # "none")
            => /\ w_pc'[w] = "create"
               /\ ~stop_event'
               /\ \A v \in Workers \ {w} :
                    /\ w_pc[v] \in {"none", "fin_after", "done"}
                    /\ stream[v] \in {"none", "closed"}
                    /\ cb_pc[v] = "idle"]_vars
    /\ [][(stop_event /\ ~stop_event')
            => /\ started' = started + 1
               /\ \A v \in Workers :
                    /\ w_pc[v] \notin {"create", "open", "loop"}
                    /\ stream[v] # "active"]_vars
    /\ [][(~stop_event /\ stop_event')
            => \/ /\ ui_pc = "stop_set" /\ ui_pc' = "idle"
                  /\ started >= 1
               \/ /\ started >= 1
                  /\ cb_pc[started] = "except" /\ cb_pc'[started] = "idle"
                  /\ stream[started] = "active"]_vars
    /\ [][ui_pc = "stop_set" => (started' = started /\ ~(stop_event /\ ~stop_event'))]_vars
    /\ [][\A w \in Workers :
            /\ (w_pc[w] = "loop" /\ w_pc'[w] # "loop") => stop_event
            /\ (stream[w] = "active" /\ stream'[w] # "active") => stop_event]_vars

\* C25 witness: the first recording was stopped and is over; the second one,
\* started with stop_event cleared, has now been given its own stop while
\* its stream is open
C25_SecondRecordingOwnStop ==
    /\ started = 2
    /\ w_pc[1] = "done"
    /\ stream[1] = "closed"
    /\ w_pc[2] = "loop"
    /\ stream[2] = "active"
    /\ stop_event
    /\ ui_pc = "idle"
    /\ record_btn.state = "disabled"

\* C26: a callback that got an empty full result puts no event (a callback
\* that returns from the recognizer call puts at most a "partial" event) and
\* starts no thread; a "raw" event never has an empty text; a callback that
\* reads use_llm as off puts no "llm_processing" event and starts no
\* _process_with_llm thread; each utterance of the callback has its "raw"
\* event put once and, when its callback has returned and its thread, if
\* any, has ended, its "enhanced" event put once.
C26_OneRawOneEnhancedPerUtterance ==
    /\ [][\A w \in Workers :
            (cb_pc[w] = "feed" /\ cb_pc'[w] = "idle")
            => /\ llm_tasks' = llm_tasks
               /\ next_utt' = next_utt
               /\ \/ text_queue' = text_queue
                  \/ \E p \in limits.partials :
                        /\ p # <<>>
                        /\ text_queue' = Append(text_queue, Ev("partial", p, <<>>, 0))]_vars
    /\ [](\A i \in 1..Len(text_queue) :
            text_queue[i].type = "raw" => text_queue[i].text # <<>>)
    /\ [][\A w \in Workers :
            (cb_pc[w] = "gate" /\ cb_pc'[w] # "gate" /\ ~use_llm)
            => /\ cb_pc'[w] = "idle"
               /\ llm_tasks' = llm_tasks
               /\ text_queue' = Append(text_queue,
                        Ev("enhanced", cb_text[w], <<>>, cb_utt[w]))]_vars
    /\ [][Len(text_queue') > Len(text_queue)
            => /\ Len(text_queue') = Len(text_queue) + 1
               /\ SubSeq(text_queue', 1, Len(text_queue)) = text_queue
               /\ LET ev == text_queue'[Len(text_queue')]
                  IN  /\ ev.type = "raw"
                        => ev.utt \notin raw_enqueued /\ ev.utt \in raw_enqueued'
                      /\ ev.type = "enhanced"
                        => ev.utt \notin enh_enqueued /\ ev.utt \in enh_enqueued'
                      /\ ev.type = "llm_processing"
                        => use_llm /\ ev.utt \in raw_enqueued \ enh_enqueued]_vars
    /\ [][raw_enqueued \subseteq raw_enqueued' /\ enh_enqueued \subseteq enh_enqueued'
            /\ (raw_enqueued' # raw_enqueued \/ enh_enqueued' # enh_enqueued
                    => Len(text_queue') = Len(text_queue) + 1)]_vars
    /\ [](\A u \in raw_enqueued :
            LET in_callback == \E w \in Workers :
                                    cb_pc[w] \in {"gate", "spawn"} /\ cb_utt[w] = u
                in_thread == \E task \in llm_tasks : task.utt = u
            IN  /\ in_callback \/ in_thread \/ u \in enh_enqueued
                /\ ~(in_callback /\ in_thread)
                /\ ~(in_callback /\ u \in enh_enqueued)
                /\ ~(in_thread /\ u \in enh_enqueued))

\* C26 witness: with use_llm off, two audio blocks were delivered, one with a
\* text that passes _needs_llm_correction: its "raw" and its "enhanced"
\* event were put by the callback, nothing else, and no thread was started
C26_SwitchOffNoWorker ==
    /\ ~use_llm
    /\ blocks = 2
    /\ llm_tasks = {}
    /\ \A w \in Workers : cb_pc[w] = "idle"
    /\ raw_enqueued = {1}
    /\ enh_enqueued = {1}
    /\ text_queue = << Ev("raw", LongText, <<>>, 1), Ev("enhanced", LongText, <<>>, 1) >>

====
